---- MODULE Spec2Model ----
(***************************************************************************)
(* State-machine model of the VotingToken ink! contract                    *)
(* (src/contracts/voting_token/lib.rs).                                    *)
(*                                                                         *)
(* The storage struct is the state; the constructor gives Init; every      *)
(* #[ink(message)] that mutates storage is one action.  Each message runs  *)
(* to completion before the next one starts (the host serialises calls).   *)
(*                                                                         *)
(* Amount arithmetic.  The source computes on u256 with the plain          *)
(* operators *, + and +=.  What an overflowing operator does is decided    *)
(* by the build profile, which is not part of the source: with overflow    *)
(* checks the operator panics and the host reverts the whole call, without *)
(* them the result wraps modulo 2^256.  overflow_checks is the profile the *)
(* contract was built with; it is chosen once and never changes.           *)
(*                                                                         *)
(* Scaling.  TLC integers are 32 bits wide, so the width of Amount is      *)
(* AmountBits instead of 256 and one ETH is WEI_PER_ETH = 10^4 wei instead *)
(* of 10^18.  Every relation the code depends on is kept: 0.1 ETH is a     *)
(* whole number of wei, WEI_PER_ETH does not divide every product          *)
(* deposit_amount * 1000 (the division truncates), and                     *)
(* WEI_PER_ETH * TOKENS_PER_ETH is far below the modulus.                  *)
(***************************************************************************)
EXTENDS Integers, FiniteSets, Sequences, TLC

\* ---------------------------------------------------------------- bounds
AmountBits == 21
MaxSteps == 3

\* ------------------------------------------------------------- constants
TOKENS_PER_ETH == 1000
WEI_PER_ETH == 10000

Modulus == 2 ^ AmountBits
MaxAmount == Modulus - 1
TENTH_ETH == WEI_PER_ETH \div 10

Alice == "Alice"
Bob == "Bob"
Carol == "Carol"
AccountId == {Alice, Bob, Carol}
NoAccount == "-"

\* Inputs the environment may supply.  Every account may deposit, transfer
\* and approve; the accounts that act as spender (the caller of
\* transfer_from and the spender named in approve) are Spenders, and the
\* contract is constructed by one of Constructors.
Constructors == {Alice}
Spenders == {Bob}
InitialSupplies == {1000, MaxAmount}
DepositAmounts ==
    {15, TENTH_ETH, 2 * TENTH_ETH, (Modulus \div TOKENS_PER_ETH) + 1}
TransferValues == {150, 200}
ApproveValues == {100, 300}

VARIABLES
    name,             \* String
    symbol,           \* String
    total_supply,     \* u256
    balance_of,       \* StorageHashMap<AccountId, u256>
    allowance,        \* StorageHashMap<(AccountId, AccountId), u256>
    deposit_of,       \* StorageHashMap<AccountId, u256>
    overflow_checks,  \* build profile: TRUE = overflow panics, FALSE = wraps
    call,             \* the message executed last: arguments, locals, result
    last_deposit,     \* history: amount of each account's latest deposit
    touched,          \* history: the constructor, the depositors, the payees
    approved,         \* history: value of the latest approve, per pair
    drawn,            \* history: value moved by transfer_from since then
    steps             \* number of messages executed so far

vars == <<name, symbol, total_supply, balance_of, allowance, deposit_of,
          overflow_checks, call, last_deposit, touched, approved, drawn,
          steps>>

\* -------------------------------------------------------------- hash maps
\* map.get(&k).copied().unwrap_or(0)
Get(map, k) == IF k \in DOMAIN map THEN map[k] ELSE 0

\* map.insert(k, v)
Insert(map, k, v) == [x \in (DOMAIN map) \cup {k} |-> IF x = k THEN v ELSE map[x]]

\* StorageHashMap::new()
EmptyMap == [x \in {} |-> 0]

\* ------------------------------------------------------- u256 arithmetic
Panic == -1

\* a + b on u256 under the build profile `checks`
Add(checks, a, b) ==
    IF a + b > MaxAmount
    THEN (IF checks THEN Panic ELSE (a + b) % Modulus)
    ELSE a + b

\* a * b on u256 under the build profile `checks`
Mul(checks, a, b) ==
    IF a * b > MaxAmount
    THEN (IF checks THEN Panic ELSE (a * b) % Modulus)
    ELSE a * b

\* -------------------------------------------------------------- storage
\* The mutable fields of the storage struct as one record.
Storage ==
    [total_supply |-> total_supply, balance_of |-> balance_of,
     allowance |-> allowance, deposit_of |-> deposit_of]

\* A message that panics is reverted by the host: storage is what it was.
Reverted(self) == [storage |-> self, result |-> "panic"]

\* --------------------------------------------------------------- messages
\* new recording the initial supply as the caller's deposit
new_records_deposit(caller, initial_supply) ==
    [total_supply |-> initial_supply,
     balance_of |-> Insert(EmptyMap, caller, initial_supply),
     allowance |-> EmptyMap,
     deposit_of |-> Insert(EmptyMap, caller, initial_supply)]

\* pub fn new(name, symbol, initial_supply) -> Self
new(caller, initial_supply) ==
    [total_supply |-> initial_supply,
     balance_of |-> Insert(EmptyMap, caller, initial_supply),
     allowance |-> EmptyMap,
     deposit_of |-> Insert(EmptyMap, caller, 0)]

\* deposit with the deposit record accumulated instead of overwritten
deposit_accumulates(self, checks, caller, deposit_amount) ==
    LET recorded == Add(checks, Get(self.deposit_of, caller), deposit_amount)
        product == Mul(checks, deposit_amount, TOKENS_PER_ETH)
        total_tokens_received == product \div WEI_PER_ETH
        supply == Add(checks, self.total_supply, total_tokens_received)
    IN  IF recorded = Panic \/ product = Panic THEN Reverted(self)
        ELSE IF supply = Panic THEN Reverted(self)
        ELSE [storage |-> [self EXCEPT
                  !.deposit_of = Insert(@, caller, recorded),
                  !.balance_of = Insert(@, caller, total_tokens_received),
                  !.total_supply = supply],
              result |-> "()"]

\* pub fn deposit(&mut self), with caller and transferred_balance explicit
deposit(self, checks, caller, deposit_amount) ==
    LET deposited == Insert(self.deposit_of, caller, deposit_amount)
        product == Mul(checks, deposit_amount, TOKENS_PER_ETH)
        total_tokens_received == product \div WEI_PER_ETH
        supply == Add(checks, self.total_supply, total_tokens_received)
    IN  IF product = Panic THEN Reverted(self)
        ELSE IF supply = Panic THEN Reverted(self)
        ELSE [storage |-> [self EXCEPT
                  !.deposit_of = deposited,
                  !.balance_of = Insert(@, caller, total_tokens_received),
                  !.total_supply = supply],
              result |-> "()"]

\* _transfer with the credit written before the balance check
_transfer_credit_first(self, checks, from, to, value) ==
    LET from_balance == Get(self.balance_of, from)
        to_balance == Get(self.balance_of, to)
        credited == Add(checks, to_balance, value)
    IN  IF credited = Panic THEN Reverted(self)
        ELSE IF from_balance < value
        THEN [storage |-> [self EXCEPT !.balance_of = Insert(@, to, credited)],
              result |-> "false"]
        ELSE [storage |-> [self EXCEPT
                  !.balance_of = Insert(Insert(@, from, from_balance - value),
                                        to, credited)],
              result |-> "true"]

\* _transfer without the debit of `from`
_transfer_no_debit(self, checks, from, to, value) ==
    LET from_balance == Get(self.balance_of, from)
        to_balance == Get(self.balance_of, to)
        credited == Add(checks, to_balance, value)
    IN  IF from_balance < value
        THEN [storage |-> self, result |-> "false"]
        ELSE IF credited = Panic THEN Reverted(self)
        ELSE [storage |-> [self EXCEPT !.balance_of = Insert(@, to, credited)],
              result |-> "true"]

\* _transfer adding the moved value to total_supply, as a mint would
_transfer_mints(self, checks, from, to, value) ==
    LET from_balance == Get(self.balance_of, from)
        to_balance == Get(self.balance_of, to)
        credited == Add(checks, to_balance, value)
        supply == Add(checks, self.total_supply, value)
    IN  IF from_balance < value
        THEN [storage |-> self, result |-> "false"]
        ELSE IF credited = Panic \/ supply = Panic THEN Reverted(self)
        ELSE [storage |-> [self EXCEPT
                  !.balance_of = Insert(Insert(@, from, from_balance - value),
                                        to, credited),
                  !.total_supply = supply],
              result |-> "true"]

\* fn _transfer(&mut self, from, to, value) -> bool
_transfer(self, checks, from, to, value) ==
    LET from_balance == Get(self.balance_of, from)
        to_balance == Get(self.balance_of, to)
        credited == Add(checks, to_balance, value)
    IN  IF from_balance < value
        THEN [storage |-> self, result |-> "false"]
        ELSE IF credited = Panic THEN Reverted(self)
        ELSE [storage |-> [self EXCEPT
                  !.balance_of = Insert(Insert(@, from, from_balance - value),
                                        to, credited)],
              result |-> "true"]

\* pub fn transfer(&mut self, to, value) -> bool
transfer(self, checks, caller, to, value) ==
    _transfer(self, checks, caller, to, value)

\* approve adding the value to the allowance instead of overwriting it
approve_adds(self, caller, spender, value) ==
    LET owner == caller
    IN  [storage |-> [self EXCEPT
             !.allowance = Insert(@, <<owner, spender>>,
                                  (Get(@, <<owner, spender>>) + value) % Modulus)],
         result |-> "true"]

\* pub fn approve(&mut self, spender, value) -> bool
approve(self, caller, spender, value) ==
    LET owner == caller
    IN  [storage |-> [self EXCEPT
             !.allowance = Insert(@, <<owner, spender>>, value)],
         result |-> "true"]

\* transfer_from with the guard comparing the owner's balance, not the
\* caller's allowance
transfer_from_checks_balance(self, checks, caller, from, to, value) ==
    LET allowed == Get(self.allowance, <<from, caller>>)
        spent == [self EXCEPT
                     !.allowance = Insert(@, <<from, caller>>,
                                          IF allowed < value THEN 0
                                          ELSE allowed - value)]
        moved == _transfer(spent, checks, from, to, value)
    IN  IF Get(self.balance_of, from) < value
        THEN [storage |-> self, result |-> "false"]
        ELSE IF moved.result = "panic" THEN Reverted(self)
        ELSE moved

\* transfer_from crediting the caller instead of `to`
transfer_from_pays_caller(self, checks, caller, from, to, value) ==
    LET allowed == Get(self.allowance, <<from, caller>>)
        spent == [self EXCEPT
                     !.allowance = Insert(@, <<from, caller>>, allowed - value)]
        moved == _transfer(spent, checks, from, caller, value)
    IN  IF allowed < value
        THEN [storage |-> self, result |-> "false"]
        ELSE IF moved.result = "panic" THEN Reverted(self)
        ELSE moved

\* transfer_from restoring the allowance when _transfer returns false
transfer_from_rolls_back(self, checks, caller, from, to, value) ==
    LET allowed == Get(self.allowance, <<from, caller>>)
        spent == [self EXCEPT
                     !.allowance = Insert(@, <<from, caller>>, allowed - value)]
        moved == _transfer(spent, checks, from, to, value)
    IN  IF allowed < value
        THEN [storage |-> self, result |-> "false"]
        ELSE IF moved.result = "panic" THEN Reverted(self)
        ELSE IF moved.result = "false"
        THEN [storage |-> [spent EXCEPT
                  !.allowance = Insert(@, <<from, caller>>, allowed)],
              result |-> "false"]
        ELSE moved

\* transfer_from without the decrement of the allowance
transfer_from_keeps_allowance(self, checks, caller, from, to, value) ==
    LET allowed == Get(self.allowance, <<from, caller>>)
        moved == _transfer(self, checks, from, to, value)
    IN  IF allowed < value
        THEN [storage |-> self, result |-> "false"]
        ELSE IF moved.result = "panic" THEN Reverted(self)
        ELSE moved

\* pub fn transfer_from(&mut self, from, to, value) -> bool
transfer_from(self, checks, caller, from, to, value) ==
    LET allowed == Get(self.allowance, <<from, caller>>)
        spent == [self EXCEPT
                     !.allowance = Insert(@, <<from, caller>>, allowed - value)]
        moved == _transfer(spent, checks, from, to, value)
    IN  IF allowed < value
        THEN [storage |-> self, result |-> "false"]
        ELSE IF moved.result = "panic" THEN Reverted(self)
        ELSE moved

\* pub fn get_total_supply(&self) -> u256
get_total_supply == total_supply

\* pub fn get_balance(&self, account) -> u256
get_balance(account) == Get(balance_of, account)

\* pub fn get_allowance(&self, owner, spender) -> u256
get_allowance(owner, spender) == Get(allowance, <<owner, spender>>)

\* pub fn get_deposit(&self, account) -> u256
get_deposit(account) == Get(deposit_of, account)

\* ---------------------------------------------------------------- actions
\* What is remembered of a message: its arguments, the values it read on
\* entry (the balances of from and to, the allowance of the caller on from;
\* for approve, the allowance of the spender on the caller) and what it
\* returned.
Call(op, caller, from, to, value, result) ==
    [op |-> op, caller |-> caller, from |-> from, to |-> to, value |-> value,
     from_balance |-> IF from = NoAccount THEN 0 ELSE Get(balance_of, from),
     to_balance |-> IF to = NoAccount THEN 0 ELSE Get(balance_of, to),
     allowance |-> IF from = NoAccount THEN 0 ELSE Get(allowance, <<from, caller>>),
     total_supply |-> total_supply,
     result |-> result]

\* The host stores what the message left in the storage struct.
Commit(out) ==
    /\ total_supply' = out.storage.total_supply
    /\ balance_of' = out.storage.balance_of
    /\ allowance' = out.storage.allowance
    /\ deposit_of' = out.storage.deposit_of
    /\ steps' = steps + 1
    /\ UNCHANGED <<name, symbol, overflow_checks>>

Init ==
    \E caller \in Constructors, initial_supply \in InitialSupplies :
        LET self == new(caller, initial_supply)
        IN  /\ name = "Vote"
            /\ symbol = "VOTE"
            /\ total_supply = self.total_supply
            /\ balance_of = self.balance_of
            /\ allowance = self.allowance
            /\ deposit_of = self.deposit_of
            /\ overflow_checks \in BOOLEAN
            /\ call = [op |-> "new", caller |-> caller, from |-> NoAccount,
                       to |-> NoAccount, value |-> initial_supply,
                       from_balance |-> 0, to_balance |-> 0, allowance |-> 0,
                       total_supply |-> 0, result |-> "()"]
            /\ last_deposit = [a \in AccountId |-> 0]
            /\ touched = {caller}
            /\ approved = [p \in AccountId \X AccountId |-> 0]
            /\ drawn = [p \in AccountId \X AccountId |-> 0]
            /\ steps = 0

Deposit(caller, deposit_amount) ==
    /\ steps < MaxSteps
    /\ LET out == deposit(Storage, overflow_checks, caller, deposit_amount)
       IN  /\ Commit(out)
           /\ call' = Call("deposit", caller, caller, NoAccount, deposit_amount,
                           out.result)
           /\ last_deposit' = IF out.result = "panic" THEN last_deposit
                              ELSE [last_deposit EXCEPT ![caller] = deposit_amount]
           /\ touched' = IF out.result = "panic" THEN touched
                         ELSE touched \cup {caller}
           /\ UNCHANGED <<approved, drawn>>

Transfer(caller, to, value) ==
    /\ steps < MaxSteps
    /\ LET out == transfer(Storage, overflow_checks, caller, to, value)
       IN  /\ Commit(out)
           /\ call' = Call("transfer", caller, caller, to, value, out.result)
           /\ touched' = IF out.result = "true" THEN touched \cup {to}
                         ELSE touched
           /\ UNCHANGED <<last_deposit, approved, drawn>>

Approve(caller, spender, value) ==
    /\ steps < MaxSteps
    /\ LET out == approve(Storage, caller, spender, value)
       IN  /\ Commit(out)
           /\ call' = [Call("approve", caller, caller, spender, value, out.result)
                          EXCEPT !.allowance = Get(allowance, <<caller, spender>>)]
           /\ approved' = [approved EXCEPT ![<<caller, spender>>] = value]
           /\ drawn' = [drawn EXCEPT ![<<caller, spender>>] = 0]
           /\ UNCHANGED <<last_deposit, touched>>

TransferFrom(caller, from, to, value) ==
    /\ steps < MaxSteps
    /\ LET out == transfer_from(Storage, overflow_checks, caller, from, to, value)
       IN  /\ Commit(out)
           /\ call' = Call("transfer_from", caller, from, to, value, out.result)
           /\ touched' = IF out.result = "true" THEN touched \cup {to}
                         ELSE touched
           /\ drawn' = IF out.result = "true"
                       THEN [drawn EXCEPT ![<<from, caller>>] = @ + value]
                       ELSE drawn
           /\ UNCHANGED <<last_deposit, approved>>

Next ==
    \/ \E caller \in AccountId, amount \in DepositAmounts :
           Deposit(caller, amount)
    \/ \E caller \in AccountId, to \in AccountId, value \in TransferValues :
           Transfer(caller, to, value)
    \/ \E caller \in AccountId, spender \in Spenders, value \in ApproveValues :
           Approve(caller, spender, value)
    \/ \E caller \in Spenders, from \in AccountId, to \in AccountId,
          value \in TransferValues :
           TransferFrom(caller, from, to, value)

Spec == Init /\ [][Next]_vars

TypeOK ==
    /\ total_supply \in 0..MaxAmount
    /\ \A a \in DOMAIN balance_of : balance_of[a] \in 0..MaxAmount
    /\ \A k \in DOMAIN allowance : allowance[k] \in 0..MaxAmount
    /\ \A a \in DOMAIN deposit_of : deposit_of[a] \in 0..MaxAmount
    /\ steps \in 0..MaxSteps

\* ---------------------------------------------------------------- claims
RECURSIVE SumOver(_, _)
SumOver(map, keys) ==
    IF keys = {} THEN 0
    ELSE LET k == CHOOSE x \in keys : TRUE
         IN  map[k] + SumOver(map, keys \ {k})

\* The sum of all entries recorded in balance_of.
SumBalances == SumOver(balance_of, DOMAIN balance_of)

\* C1: in every reachable state total_supply is at least the sum of all
\* recorded balance_of entries.
C1_SupplyCoversBalances == total_supply >= SumBalances

\* The last message was a self-transfer that the balance (and, for
\* transfer_from, the allowance) covers.
SelfTransferCase ==
    /\ call.op \in {"transfer", "transfer_from"}
    /\ call.from = call.to
    /\ call.value <= call.from_balance
    /\ call.op = "transfer_from" => call.value <= call.allowance

\* C2: a self-transfer of a value the balance covers returns true and leaves
\* the account's balance as it was.
C2_SelfTransferNoChange ==
    SelfTransferCase =>
        /\ call.result = "true"
        /\ get_balance(call.from) = call.from_balance

\* C3: transfer and transfer_from are atomic: when either returns false the
\* whole ledger (balance_of, allowance, deposit_of, total_supply) is as it
\* was before the call.
C3_FalseMeansUntouched ==
    [][(call'.op \in {"transfer", "transfer_from"} /\ call'.result = "false")
          => Storage' = Storage]_vars

\* C4: transfer of a value above the caller's balance returns false and
\* changes no balance, allowance, deposit record or the total supply.
C4_TransferInsufficientBalance ==
    [][(call'.op = "transfer" /\ call'.value > Get(balance_of, call'.caller))
          => (call'.result = "false" /\ Storage' = Storage)]_vars

C4_Witness ==
    /\ call.op = "transfer"
    /\ call.value > call.from_balance
    /\ call.from_balance > 0
    /\ call.result = "false"

\* C5: transfer to another account of a value the caller's balance covers
\* returns true, debits the caller by exactly value, credits the recipient by
\* exactly value and changes no other balance.
C5_TransferMovesValue ==
    [][(/\ call'.op = "transfer"
        /\ call'.to # call'.caller
        /\ call'.value <= Get(balance_of, call'.caller))
          => (/\ call'.result = "true"
              /\ Get(balance_of', call'.caller) = Get(balance_of, call'.caller) - call'.value
              /\ Get(balance_of', call'.to) = Get(balance_of, call'.to) + call'.value
              /\ \A a \in AccountId \ {call'.caller, call'.to} :
                     Get(balance_of', a) = get_balance(a))]_vars

\* C6: transfer_from of a value above allowance(from, caller) returns false
\* and changes no allowance, balance, deposit record or the total supply.
C6_TransferFromInsufficientAllowance ==
    [][(/\ call'.op = "transfer_from"
        /\ call'.value > Get(allowance, <<call'.from, call'.caller>>))
          => (call'.result = "false" /\ Storage' = Storage)]_vars

C6_Witness ==
    /\ call.op = "transfer_from"
    /\ call.value > call.allowance
    /\ call.allowance > 0
    /\ call.value <= call.from_balance
    /\ call.result = "false"

\* C7: transfer_from of a value that both allowance(from, caller) and
\* balance(from) cover returns true, lowers allowance(from, caller) by exactly
\* value, leaves every other allowance entry alone and moves the balances as a
\* successful transfer does (from == to netting to no change).
C7_TransferFromMovesValue ==
    [][(/\ call'.op = "transfer_from"
        /\ call'.value <= Get(allowance, <<call'.from, call'.caller>>)
        /\ call'.value <= Get(balance_of, call'.from))
          => (/\ call'.result = "true"
              /\ Get(allowance', <<call'.from, call'.caller>>)
                    = Get(allowance, <<call'.from, call'.caller>>) - call'.value
              /\ \A o \in AccountId, s \in AccountId :
                     <<o, s>> # <<call'.from, call'.caller>>
                        => Get(allowance', <<o, s>>) = get_allowance(o, s)
              /\ IF call'.from = call'.to
                 THEN Get(balance_of', call'.from) = Get(balance_of, call'.from)
                 ELSE /\ Get(balance_of', call'.from)
                            = Get(balance_of, call'.from) - call'.value
                      /\ Get(balance_of', call'.to)
                            = Get(balance_of, call'.to) + call'.value
              /\ \A a \in AccountId \ {call'.from, call'.to} :
                     Get(balance_of', a) = get_balance(a))]_vars

\* C8: total_supply never decreases: in every step the new total_supply is
\* at least the old one.
C8_SupplyNeverDecreases == [][total_supply' >= total_supply]_vars

\* floor(d * 1000 / 10^18) in unbounded arithmetic
Minted(d) == (d * TOKENS_PER_ETH) \div WEI_PER_ETH

\* The deposit of d stays inside the Amount range: neither d * 1000 nor
\* total_supply + minted overflows.
InRange(d) ==
    /\ d * TOKENS_PER_ETH <= MaxAmount
    /\ total_supply + Minted(d) <= MaxAmount

\* C9: a deposit of d sets the caller's balance to floor(d * 1000 / 10^18)
\* and raises total_supply by that amount; depositing 0.1 ETH and then
\* 0.2 ETH from the same caller leaves the balance at 2000 and total_supply
\* 3000 above its value before the first deposit.  Stated for deposits that
\* stay inside the Amount range.
C9_DepositMints ==
    [][(call'.op = "deposit" /\ InRange(call'.value))
          => (/\ call'.result = "()"
              /\ Get(balance_of', call'.caller) = Minted(call'.value)
              /\ total_supply' = total_supply + Minted(call'.value)
              /\ (/\ call'.value = 2 * TENTH_ETH
                  /\ call.op = "deposit" /\ call.result = "()"
                  /\ call.caller = call'.caller
                  /\ call.value = TENTH_ETH)
                    => (/\ Get(balance_of', call'.caller) = 2000
                        /\ total_supply' = call.total_supply + 3000))]_vars

\* C10: get_deposit(A) is the amount of A's most recent deposit, or 0 if A
\* never deposited, and only A's own deposit changes deposit_of[A].
C10_DepositRecord ==
    /\ [](\A a \in AccountId : get_deposit(a) = last_deposit[a])
    /\ [][\A a \in AccountId :
             Get(deposit_of', a) # get_deposit(a)
                => (call'.op = "deposit" /\ call'.caller = a)]_vars

C10_Witness ==
    /\ call.op = "deposit"
    /\ call.result = "()"
    /\ get_deposit(call.caller) = call.value
    /\ \E a \in AccountId \ {call.caller} :
           get_deposit(a) > 0 /\ get_deposit(a) # call.value
\* C11: approve(spender, v) by owner returns true and sets
\* allowance(owner, spender) to exactly v whatever it was before (approve v1
\* then approve v2 leaves v2), and changes no other allowance entry, no
\* balance, no deposit record and not the total supply.
C11_ApproveOverwrites ==
    [][call'.op = "approve"
          => (/\ call'.result = "true"
              /\ Get(allowance', <<call'.caller, call'.to>>) = call'.value
              /\ \A o \in AccountId, s \in AccountId :
                     <<o, s>> # <<call'.caller, call'.to>>
                        => Get(allowance', <<o, s>>) = get_allowance(o, s)
              /\ balance_of' = balance_of
              /\ deposit_of' = deposit_of
              /\ total_supply' = total_supply)]_vars

\* An approve of v2 on a pair whose allowance was a different v1 > 0.
C11_Witness ==
    /\ call.op = "approve"
    /\ call.allowance > 0
    /\ call.allowance # call.value
    /\ get_allowance(call.caller, call.to) = call.value

\* C12: right after construct(name, symbol, supply) by caller C the total
\* supply and C's balance are supply, C's deposit is 0, every other account
\* has balance 0 and deposit 0, and every allowance is 0.
C12_AfterConstruct ==
    call.op = "new" =>
        /\ get_total_supply = call.value
        /\ get_balance(call.caller) = call.value
        /\ get_deposit(call.caller) = 0
        /\ \A a \in AccountId \ {call.caller} :
               get_balance(a) = 0 /\ get_deposit(a) = 0
        /\ \A o \in AccountId, s \in AccountId : get_allowance(o, s) = 0

C12_Witness ==
    /\ call.op = "new"
    /\ steps = 0
    /\ call.value = 1000
    /\ get_balance(call.caller) = 1000
\* C13: an account that was never the constructing caller, the caller of a
\* deposit or the recipient `to` of a transfer or transfer_from has balance
\* 0.  touched holds the constructor, the callers of completed deposits and
\* the recipients of transfers that returned true, so the accounts outside
\* it include every account the claim speaks of.
C13_UntouchedIsZero ==
    \A a \in AccountId \ touched : get_balance(a) = 0

\* A spender has moved another account's tokens to a third one and was never
\* credited itself.
C13_Witness ==
    /\ call.op = "transfer_from"
    /\ call.result = "true"
    /\ call.caller \notin touched
    /\ call.to # call.caller
    /\ get_balance(call.caller) = 0
\* Bob's transfer_from(Alice, Carol, value)
ScenarioSpend(c, value) ==
    /\ c.op = "transfer_from"
    /\ c.caller = Bob
    /\ c.from = Alice
    /\ c.to = Carol
    /\ c.value = value

\* construct with supply 1000 by Alice, then Alice's approve(Bob, 300)
ScenarioApproved ==
    /\ steps = 1
    /\ call.op = "approve"
    /\ call.caller = Alice
    /\ call.to = Bob
    /\ call.value = 300
    /\ call.from_balance = 1000
    /\ total_supply = 1000

\* ... then Bob's transfer_from(Alice, Carol, 200): with two messages
\* executed, an allowance of 300 on entry can only come from that approve
\* and a balance of 1000 from that construction.
ScenarioSpent ==
    /\ steps = 2
    /\ ScenarioSpend(call, 200)
    /\ call.allowance = 300
    /\ call.from_balance = 1000
    /\ call.to_balance = 0

\* C14: after construct(1000) by Alice and Alice's approve(Bob, 300), Bob's
\* transfer_from(Alice, Carol, 200) returns true and leaves Alice 800,
\* Carol 200 and allowance(Alice, Bob) 100; Bob's following
\* transfer_from(Alice, Carol, 150) returns false, changes no balance and
\* leaves the allowance at 100.
C14_Scenario ==
    [][/\ (ScenarioApproved /\ ScenarioSpend(call', 200))
            => (/\ call'.result = "true"
                /\ Get(balance_of', Alice) = 800
                /\ Get(balance_of', Carol) = 200
                /\ Get(allowance', <<Alice, Bob>>) = 100)
       /\ (ScenarioSpent /\ ScenarioSpend(call', 150))
            => (/\ call.result = "true"
                /\ call'.result = "false"
                /\ balance_of' = balance_of
                /\ Get(allowance', <<Alice, Bob>>) = 100)]_vars

\* The scenario has run to its end: one approve of 300, 200 drawn under it,
\* and the refused transfer_from of 150 as the third message.
C14_Witness ==
    /\ steps = 3
    /\ ScenarioSpend(call, 150)
    /\ call.result = "false"
    /\ approved[<<Alice, Bob>>] = 300
    /\ drawn[<<Alice, Bob>>] = 200
    /\ get_balance(Alice) = 800
    /\ get_balance(Carol) = 200
    /\ get_allowance(Alice, Bob) = 100
\* C15: transfer_from of a value that allowance(from, caller) covers but
\* balance(from) does not returns false and leaves every balance as it was,
\* yet allowance(from, caller) is lowered by value and stays lowered.
C15_AllowanceSpentOnFailure ==
    [][(/\ call'.op = "transfer_from"
        /\ call'.value <= get_allowance(call'.from, call'.caller)
        /\ call'.value > get_balance(call'.from))
          => (/\ call'.result = "false"
              /\ balance_of' = balance_of
              /\ Get(allowance', <<call'.from, call'.caller>>)
                    = get_allowance(call'.from, call'.caller) - call'.value)]_vars

C15_Witness ==
    /\ call.op = "transfer_from"
    /\ call.value <= call.allowance
    /\ call.value > call.from_balance
    /\ call.result = "false"
    /\ get_allowance(call.from, call.caller) = call.allowance - call.value
    /\ get_allowance(call.from, call.caller) < approved[<<call.from, call.caller>>]
\* The message c, started in the current state, executes a multiplication or
\* an addition whose exact result exceeds the Amount range.
WouldOverflow(c) ==
    \/ /\ c.op = "deposit"
       /\ \/ c.value * TOKENS_PER_ETH > MaxAmount
          \/ total_supply + Minted(c.value) > MaxAmount
    \/ /\ c.op = "transfer"
       /\ c.value <= get_balance(c.from)
       /\ get_balance(c.to) + c.value > MaxAmount
    \/ /\ c.op = "transfer_from"
       /\ c.value <= get_allowance(c.from, c.caller)
       /\ c.value <= get_balance(c.from)
       /\ get_balance(c.to) + c.value > MaxAmount

\* C16: no operation wraps around: when deposit's transferred_amount * 1000,
\* deposit's total_supply + minted or _transfer's to_balance + value would
\* exceed 2^w - 1, the call aborts and no stored value changes.
C16_OverflowAborts ==
    [][WouldOverflow(call')
          => (call'.result = "panic" /\ Storage' = Storage)]_vars
\* C17: a call by caller C lowers the balance of an account A other than C
\* only if it is transfer_from with from = A and allowance(A, C) >= value on
\* entry, and then by exactly value.
C17_DebitNeedsAllowance ==
    [][\A a \in AccountId \ {call'.caller} :
          Get(balance_of', a) < get_balance(a)
             => (/\ call'.op = "transfer_from"
                 /\ call'.from = a
                 /\ get_allowance(a, call'.caller) >= call'.value
                 /\ Get(balance_of', a) = get_balance(a) - call'.value)]_vars
\* C18: allowance(owner, spender) is raised only by owner's approve for
\* spender, and the value the spender's successful transfer_from calls have
\* moved out of owner's balance since owner's latest approve for spender
\* never exceeds the value of that approve (nothing before the first one).
\* drawn counts the value of every transfer_from that returned true.
C18_SpendWithinApproval ==
    /\ [](\A p \in AccountId \X AccountId : drawn[p] <= approved[p])
    /\ [][\A o \in AccountId, s \in AccountId :
             Get(allowance', <<o, s>>) > get_allowance(o, s)
                => (/\ call'.op = "approve"
                    /\ call'.caller = o
                    /\ call'.to = s)]_vars

\* A spender has drawn its whole approval in two calls.
C18_Witness ==
    \E o \in AccountId, s \in AccountId :
        /\ approved[<<o, s>>] = 300
        /\ drawn[<<o, s>>] = 300
        /\ get_allowance(o, s) = 0
        /\ call.op = "transfer_from"
        /\ call.result = "true"
\* C19: transfer, approve and transfer_from leave total_supply and every
\* deposit_of entry unchanged; transfer leaves every allowance unchanged;
\* deposit by C leaves every allowance, and the balance and the deposit
\* record of every account other than C, unchanged.
C19_Frame ==
    [][/\ call'.op \in {"transfer", "approve", "transfer_from"}
            => (total_supply' = total_supply /\ deposit_of' = deposit_of)
       /\ call'.op = "transfer" => allowance' = allowance
       /\ call'.op = "deposit"
            => (/\ allowance' = allowance
                /\ \A a \in AccountId \ {call'.caller} :
                       /\ Get(balance_of', a) = get_balance(a)
                       /\ Get(deposit_of', a) = get_deposit(a))]_vars

\* A deposit has completed while another account holds tokens and a deposit
\* record and an allowance is outstanding.
C19_Witness ==
    /\ call.op = "deposit"
    /\ call.result = "()"
    /\ \E a \in AccountId \ {call.caller} :
           get_balance(a) > 0 /\ get_deposit(a) > 0
    /\ \E o \in AccountId, s \in AccountId : get_allowance(o, s) > 0

====
